---- MODULE Spec2Model ----
(***************************************************************************)
(* Tile-based level system: the Level entity (src/src/level.js), its       *)
(* loader pipeline and the pure collision detector (src/src/collision.js). *)
(***************************************************************************)
EXTENDS Integers, Sequences, FiniteSets, TLC

\* ---------------------------------------------------------------- constants
TILE_SIZE == 32

MAX_PARTICLE_TILES == 2000

\* ------------------------------------------------------------------- bounds
\* widths and heights of the level documents: 1..MaxDim
MaxDim == 2
\* player rectangle coordinates: half tiles -2..MaxHalfTiles
MaxHalfTiles == 4
\* checkGoal calls that see overlap, explored per Level
MaxOverlaps == 2
\* render() calls explored per Level
MaxRenders == 2

\* --------------------------------------------------------- JavaScript values
\* A JavaScript value a rectangle field can hold: a finite number, NaN,
\* +/-Infinity, undefined (an absent field) or a non-numeric string.
Num(n) == [t |-> "num", v |-> n]

NaN == [t |-> "NaN", v |-> 0]

PosInf == [t |-> "Infinity", v |-> 0]

NegInf == [t |-> "-Infinity", v |-> 0]

Undefined == [t |-> "undefined", v |-> 0]

Str == [t |-> "string", v |-> 0]

\* typeof a === 'number'
TypeofNumber(a) == a.t \in {"num", "NaN", "Infinity", "-Infinity"}

\* the numeric value an arithmetic comparison sees (undefined and a
\* non-numeric string both convert to NaN)
ToNumber(a) == IF TypeofNumber(a) THEN a ELSE NaN

\* a + b on numbers (IEEE-754: NaN is absorbing, Infinity + -Infinity = NaN)
Add(a, b) ==
  LET p == ToNumber(a)
      q == ToNumber(b)
  IN  IF p.t = "NaN" \/ q.t = "NaN" THEN NaN
      ELSE IF p.t = "num" /\ q.t = "num" THEN Num(p.v + q.v)
      ELSE IF p.t = "num" THEN q
      ELSE IF q.t = "num" THEN p
      ELSE IF p.t = q.t THEN p
      ELSE NaN

\* a < b (false as soon as one side is NaN)
Lt(a, b) ==
  LET p == ToNumber(a)
      q == ToNumber(b)
  IN  /\ p.t # "NaN"
      /\ q.t # "NaN"
      /\ \/ p.t = "-Infinity" /\ q.t # "-Infinity"
         \/ p.t = "num" /\ q.t = "Infinity"
         \/ p.t = "num" /\ q.t = "num" /\ p.v < q.v

\* a > b
Gt(a, b) == Lt(b, a)

\* a <= b
Le(a, b) ==
  LET p == ToNumber(a)
      q == ToNumber(b)
  IN  /\ p.t # "NaN"
      /\ q.t # "NaN"
      /\ (Lt(p, q) \/ p = q)

\* Math.floor(a / TILE_SIZE)
FloorTile(a) ==
  LET p == ToNumber(a)
  IN  IF p.t = "num" THEN Num(p.v \div TILE_SIZE) ELSE p

\* ------------------------------------------------------------ level documents
\* the tile IDs, the tile layouts (by seed) and the `collision` arrays of the
\* level documents
TileIds == {0, 1, 2}

Seeds == {0, 7, 10}

CollisionSets == {{}, {1}, {0, 2}}

\* tile ID of cell i of the layout numbered seed
TileOf(seed, i) == (seed \div (i + 1)) % Cardinality(TileIds)

TilesOf(w, h, seed) ==
  [y \in 0..(h - 1) |-> [x \in 0..(w - 1) |-> TileOf(seed, y * w + x)]]

\* a decoded level document; hasTiles = FALSE is a document without `tiles`
Doc(w, h, t, c, gx, gy, has) ==
  [width |-> w, height |-> h, tiles |-> t, collision |-> c,
   goal |-> [x |-> gx, y |-> gy], hasTiles |-> has]

Dims == 1..MaxDim

GoalCoords == -1..MaxDim

\* documents that satisfy the structural contract (the goal may be anywhere)
WellFormedDocs ==
  { Doc(w, h, TilesOf(w, h, s), c, gx, gy, TRUE) :
      w \in Dims, h \in Dims, s \in Seeds, c \in CollisionSets,
      gx \in GoalCoords, gy \in GoalCoords }

\* documents that break the structural contract: no `tiles`, a missing last
\* row, or width 0
MalformedDocs ==
  { Doc(w, h, <<>>, c, gx, gy, FALSE) :
      w \in Dims, h \in Dims, c \in {{1}}, gx \in {0, MaxDim}, gy \in {0} }
  \cup
  { Doc(w, h, TilesOf(w, h - 1, s), c, gx, gy, TRUE) :
      w \in Dims, h \in Dims, s \in {7}, c \in {{1}}, gx \in {0, MaxDim}, gy \in {0} }
  \cup
  { Doc(0, h, TilesOf(0, h, 0), {1}, 0, 0, TRUE) : h \in Dims }

Docs == WellFormedDocs \cup MalformedDocs

\* --------------------------------------------------------------- errors, logs
\* a thrown JavaScript error: its class name and the fixed part of its message
Error(name, message) == [name |-> name, message |-> message]

NoError == Error("", "")

\* a logger.error call: the fixed part of its text, whether the text holds the
\* URL, and the message of the error it reports
LogEntry(text, hasUrl, cause) == [text |-> text, hasUrl |-> hasUrl, cause |-> cause]

\* ------------------------------------------------------------------ the Level
NoLevel ==
  [constructed |-> FALSE, width |-> 0, height |-> 0, tiles |-> <<>>,
   collisionTileIds |-> {}, goal |-> [x |-> 0, y |-> 0], collisionGrid |-> <<>>,
   goalReached |-> "undefined", renderContainer |-> 0]

\* the goal check with the upper bounds off by one
GoalOutOfBoundsInclusive(rawData) ==
  \/ rawData.goal.x < 0
  \/ rawData.goal.y < 0
  \/ rawData.goal.x > rawData.width
  \/ rawData.goal.y > rawData.height

\* the goal check of the constructor
GoalOutOfBounds(rawData) ==
  \/ rawData.goal.x < 0
  \/ rawData.goal.y < 0
  \/ rawData.goal.x >= rawData.width
  \/ rawData.goal.y >= rawData.height

\* this.tiles[y][x] throws a TypeError when this.tiles or this.tiles[y] is
\* undefined
TilesReadThrows(rawData) ==
  \E y \in 0..(rawData.height - 1) : \E x \in 0..(rawData.width - 1) :
    \/ ~rawData.hasTiles
    \/ y \notin DOMAIN rawData.tiles

\* the grid with every non-zero tile ID solid, whatever `collision` lists
BuildCollisionGridNonZero(rawData) ==
  [y \in 0..(rawData.height - 1) |->
    [x \in 0..(rawData.width - 1) |->
      /\ x \in DOMAIN rawData.tiles[y]
      /\ rawData.tiles[y][x] # 0]]

\* the 2-D boolean collision grid; a tile ID missing from a short row is
\* undefined, which the Set does not hold
BuildCollisionGrid(rawData) ==
  [y \in 0..(rawData.height - 1) |->
    [x \in 0..(rawData.width - 1) |->
      /\ x \in DOMAIN rawData.tiles[y]
      /\ rawData.tiles[y][x] \in rawData.collision]]

\* new Level(rawData): the thrown error or the constructed object, and what the
\* constructor logs
Construct(rawData) ==
  IF GoalOutOfBounds(rawData)
  THEN [threw |-> TRUE, error |-> Error("Error", "Goal position out of bounds"),
        logs |-> <<LogEntry("Goal position out of bounds", FALSE, "")>>,
        level |-> NoLevel]
  ELSE IF TilesReadThrows(rawData)
  THEN [threw |-> TRUE, error |-> Error("TypeError", "Cannot read properties of undefined"),
        logs |-> <<>>, level |-> NoLevel]
  ELSE [threw |-> FALSE, error |-> NoError, logs |-> <<>>,
        level |-> [constructed |-> TRUE,
                   width |-> rawData.width,
                   height |-> rawData.height,
                   tiles |-> rawData.tiles,
                   collisionTileIds |-> rawData.collision,
                   goal |-> rawData.goal,
                   collisionGrid |-> BuildCollisionGrid(rawData),
                   goalReached |-> "undefined",
                   renderContainer |-> 0]]

\* isSolid with the tiles outside the grid solid
isSolidOutside(lvl, x, y) ==
  IF x < 0 \/ y < 0 \/ x >= lvl.width \/ y >= lvl.height
  THEN TRUE
  ELSE lvl.collisionGrid[y][x]

\* Level.isSolid(x, y) on integer tile coordinates
isSolid(lvl, x, y) ==
  IF x < 0 \/ y < 0 \/ x >= lvl.width \/ y >= lvl.height
  THEN FALSE
  ELSE lvl.collisionGrid[y][x]

\* Level.getGoalPosition()
getGoalPosition(lvl) == [x |-> lvl.goal.x, y |-> lvl.goal.y]

\* getGoalPosition handing out the stored goal object itself
ReturnedPosWriteShared(lvl, pos) == [lvl EXCEPT !.goal = pos]

\* the Level after the caller wrote to an object getGoalPosition returned: the
\* object is a literal built for that call, the Level holds no reference to it
ReturnedPosWrite(lvl, pos) == lvl

\* the Level after the source document was written to: tiles and goal are the
\* document's own objects, the collision IDs were copied into a Set and the
\* grid was computed once
LevelSeesDocument(lvl, doc) == [lvl EXCEPT !.tiles = doc.tiles, !.goal = doc.goal]

\* ------------------------------------------------------------ player rectangle
Rect(x, y, w, h) == [isNull |-> FALSE, x |-> x, y |-> y, width |-> w, height |-> h]

\* playerRect = null
NullRect == [isNull |-> TRUE, x |-> Undefined, y |-> Undefined,
             width |-> Undefined, height |-> Undefined]

\* the overlap test with edges that touch counted as overlapping
GoalOverlapInclusive(lvl, playerRect) ==
  LET goalRect == [x |-> Num(lvl.goal.x * TILE_SIZE),
                   y |-> Num(lvl.goal.y * TILE_SIZE),
                   width |-> Num(TILE_SIZE),
                   height |-> Num(TILE_SIZE)]
  IN  /\ Le(playerRect.x, Add(goalRect.x, goalRect.width))
      /\ Le(goalRect.x, Add(playerRect.x, playerRect.width))
      /\ Le(playerRect.y, Add(goalRect.y, goalRect.height))
      /\ Le(goalRect.y, Add(playerRect.y, playerRect.height))

\* the overlap test of checkGoal
GoalOverlap(lvl, playerRect) ==
  LET goalRect == [x |-> Num(lvl.goal.x * TILE_SIZE),
                   y |-> Num(lvl.goal.y * TILE_SIZE),
                   width |-> Num(TILE_SIZE),
                   height |-> Num(TILE_SIZE)]
  IN  /\ Lt(playerRect.x, Add(goalRect.x, goalRect.width))
      /\ Gt(Add(playerRect.x, playerRect.width), goalRect.x)
      /\ Lt(playerRect.y, Add(goalRect.y, goalRect.height))
      /\ Gt(Add(playerRect.y, playerRect.height), goalRect.y)

\* checkGoal firing on every overlap, the flag unread
GoalFiresOnEveryOverlap(lvl, overlap) == overlap

\* how checkGoal reads the flag: unset reads as false
goalReached(lvl) == lvl.goalReached = "true"

\* whether this call of checkGoal sets _goalReached and emits 'levelComplete'
GoalFires(lvl, overlap) == overlap /\ lvl.goalReached # "true"

\* checkGoal returning whether this call reached the goal for the first time
CheckGoalReturnFirstOnly(lvl, overlap) == overlap /\ lvl.goalReached # "true"

\* the value checkGoal returns
CheckGoalReturn(lvl, overlap) == overlap

\* ------------------------------------------------------- the collision detector
\* the `level` argument of detectCollision: null, an object without isSolid,
\* the mock of the tests (tiles (2,2) and (3,2) solid), or the Level
LevelArgs == {"null", "noIsSolid", "mock", "Level"}

\* typeof level.isSolid === 'function' on a non-null level
HasIsSolid(arg) == arg \in {"mock", "Level"}

\* level.isSolid(tx, ty) on the argument
CallIsSolid(arg, lvl, tx, ty) ==
  IF arg = "mock"
  THEN (tx = 2 /\ ty = 2) \/ (tx = 3 /\ ty = 2)
  ELSE isSolid(lvl, tx, ty)

\* no tile with a coordinate above the horizon is solid
Horizon(arg, lvl) == IF arg = "mock" THEN 3 ELSE lvl.width + lvl.height

\* the argument checks of detectCollision on playerRect
InvalidPlayerRect(playerRect) ==
  \/ playerRect.isNull
  \/ ~TypeofNumber(playerRect.x)
  \/ ~TypeofNumber(playerRect.y)
  \/ ~TypeofNumber(playerRect.width)
  \/ ~TypeofNumber(playerRect.height)

\* the level check as a concrete-type check
InvalidLevelArgNotLevel(arg) == arg # "Level"

\* the argument check of detectCollision on level
InvalidLevelArg(arg) == arg = "null" \/ ~HasIsSolid(arg)

\* how `for (t = s; t <= e; t++)` runs: not at all, over s..e, upwards for
\* ever (e is Infinity), or for ever on the spot (s is infinite: t++ is t)
LoopKind(s, e) ==
  IF ~Le(s, e) THEN "empty"
  ELSE IF s.t # "num" THEN "stuck"
  ELSE IF e.t # "num" THEN "up"
  ELSE "finite"

\* the inner loop over tx..last of row ty: TRUE when it exits early on a solid
\* tile
RECURSIVE ScanRow(_, _, _, _, _)
ScanRow(arg, lvl, tx, last, ty) ==
  IF tx > last THEN FALSE
  ELSE IF CallIsSolid(arg, lvl, tx, ty) THEN TRUE
  ELSE ScanRow(arg, lvl, tx + 1, last, ty)

\* the inner loop with an exclusive upper end (tx < endX)
RowOutcomeExclusive(arg, lvl, startX, endX, ty) ==
  LET kind == LoopKind(startX, endX)
  IN  IF kind = "empty" THEN "next"
      ELSE IF kind = "stuck" THEN "hang"
      ELSE IF kind = "finite"
      THEN (IF ScanRow(arg, lvl, startX.v, endX.v - 1, ty) THEN "true" ELSE "next")
      ELSE (IF ScanRow(arg, lvl, startX.v, Horizon(arg, lvl), ty) THEN "true" ELSE "hang")

\* the inner loop on row ty: "true" (early exit), "next" (the row is done) or
\* "hang" (the loop never ends)
RowOutcome(arg, lvl, startX, endX, ty) ==
  LET kind == LoopKind(startX, endX)
  IN  IF kind = "empty" THEN "next"
      ELSE IF kind = "stuck" THEN "hang"
      ELSE IF kind = "finite"
      THEN (IF ScanRow(arg, lvl, startX.v, endX.v, ty) THEN "true" ELSE "next")
      ELSE (IF ScanRow(arg, lvl, startX.v, Horizon(arg, lvl), ty) THEN "true" ELSE "hang")

\* the outer loop over ty..last; endless says that the rows go on for ever
RECURSIVE ScanRows(_, _, _, _, _, _, _)
ScanRows(arg, lvl, startX, endX, ty, last, endless) ==
  IF ty > last THEN (IF endless THEN "hang" ELSE "false")
  ELSE LET r == RowOutcome(arg, lvl, startX, endX, ty)
       IN  IF r = "next"
           THEN ScanRows(arg, lvl, startX, endX, ty + 1, last, endless)
           ELSE r

\* the two nested loops of detectCollision: "true", "false" or "hang"
ScanTiles(arg, lvl, startX, startY, endX, endY) ==
  LET kind == LoopKind(startY, endY)
  IN  IF kind = "empty" THEN "false"
      ELSE IF kind = "stuck" THEN "hang"
      ELSE IF kind = "finite"
      THEN ScanRows(arg, lvl, startX, endX, startY.v, endY.v, FALSE)
      ELSE ScanRows(arg, lvl, startX, endX, startY.v, Horizon(arg, lvl), TRUE)

\* how a call ends: kind is "return", "throw" or "hang"
Outcome(kind, value, message) == [kind |-> kind, value |-> value, message |-> message]

NotCalled == Outcome("none", FALSE, "")

\* a detectCollision that overwrites playerRect.x and playerRect.y with their
\* tile indices and tests nothing
detectCollisionSnapping(playerRect, arg, lvl) ==
  LET snapped == IF playerRect.isNull THEN playerRect
                 ELSE [playerRect EXCEPT !.x = FloorTile(playerRect.x),
                                         !.y = FloorTile(playerRect.y)]
      out == IF InvalidPlayerRect(playerRect)
             THEN Outcome("throw", FALSE, "Invalid playerRect supplied to detectCollision")
             ELSE IF InvalidLevelArg(arg)
             THEN Outcome("throw", FALSE, "Invalid level object supplied to detectCollision")
             ELSE Outcome("return", FALSE, "")
  IN  [outcome |-> out, playerRect |-> snapped, level |-> lvl]

\* detectCollision(playerRect, level): how the call ends, and its two
\* arguments as the call leaves them
detectCollision(playerRect, arg, lvl) ==
  LET startX == FloorTile(playerRect.x)
      startY == FloorTile(playerRect.y)
      endX == FloorTile(Add(playerRect.x, playerRect.width))
      endY == FloorTile(Add(playerRect.y, playerRect.height))
      scan == ScanTiles(arg, lvl, startX, startY, endX, endY)
      out == IF InvalidPlayerRect(playerRect)
             THEN Outcome("throw", FALSE, "Invalid playerRect supplied to detectCollision")
             ELSE IF InvalidLevelArg(arg)
             THEN Outcome("throw", FALSE, "Invalid level object supplied to detectCollision")
             ELSE IF scan = "hang" THEN Outcome("hang", FALSE, "")
             ELSE Outcome("return", scan = "true", "")
  IN  [outcome |-> out, playerRect |-> playerRect, level |-> lvl]

\* ------------------------------------------------------------------ the state
VARIABLES
  pc,              \* where the promise chain of loadLevel stands
  response,        \* what fetch(url) settles with
  err,             \* the error the promise chain carries
  errorLog,        \* the logger.error calls of the current loadLevel call
  ctorCalled,      \* whether the current loadLevel call ran new Level(json)
  level,           \* the Level the caller holds (NoLevel: none)
  emitted,         \* emit('levelComplete') calls on the Level
  overlaps,        \* checkGoal calls on the Level that saw overlap
  hasListeners,    \* whether 'levelComplete' listeners are registered on the Level
  tilesetTexture,  \* whether the asset loader holds the tileset texture
  containers,      \* the Pixi containers render() has created
  result,          \* the last call on the Level and what it returned
  playerRect,      \* detectCollision: the playerRect argument
  levelArg,        \* detectCollision: the kind of the level argument
  outcome          \* detectCollision: how the call ended

vars ==
  <<pc, response, err, errorLog, ctorCalled, level, emitted, overlaps,
    hasListeners, tilesetTexture, containers, result, playerRect, levelArg, outcome>>

loaderVars == <<pc, response, err, errorLog, ctorCalled>>

collisionVars == <<playerRect, levelArg, outcome>>

\* ------------------------------------------------------------- fetch outcomes
\* what fetch(url) settles with: a rejection, or a response whose body
\* response.json() cannot decode, decodes to a string, or decodes to an object
Response(settled, ok, body, doc) ==
  [settled |-> settled, ok |-> ok, body |-> body, doc |-> doc]

AnyDoc == Doc(1, 1, TilesOf(1, 1, 0), {}, 0, 0, TRUE)

Responses ==
  { Response("rejected", FALSE, "undecodable", AnyDoc),
    Response("resolved", FALSE, "object", AnyDoc),
    Response("resolved", TRUE, "undecodable", AnyDoc),
    Response("resolved", TRUE, "string", AnyDoc) }
  \cup { Response("resolved", TRUE, "object", d) : d \in Docs }

\* the compiled schema validator: width and height integers >= 1, tiles an
\* array of height rows of width integers, collision an array of integers,
\* goal an object with integers x and y (bounds unchecked)
validate(response_) ==
  /\ response_.body = "object"
  /\ response_.doc.width >= 1
  /\ response_.doc.height >= 1
  /\ response_.doc.hasTiles
  /\ DOMAIN response_.doc.tiles = 0..(response_.doc.height - 1)
  /\ \A y \in DOMAIN response_.doc.tiles :
       DOMAIN response_.doc.tiles[y] = 0..(response_.doc.width - 1)

\* --------------------------------------------------------------- call results
Result(op, x, y, rect, threw, ret, pos) ==
  [op |-> op, x |-> x, y |-> y, rect |-> rect, threw |-> threw, ret |-> ret, pos |-> pos]

NoResult == Result("none", 0, 0, NullRect, FALSE, FALSE, [x |-> 0, y |-> 0])

\* a Pixi container render() created
Container(kind, children) ==
  [kind |-> kind, children |-> children, destroyed |-> FALSE]

\* -------------------------------------------------------------- initial state
Init ==
  /\ pc = "idle"
  /\ response = Response("rejected", FALSE, "undecodable", AnyDoc)
  /\ err = NoError
  /\ errorLog = <<>>
  /\ ctorCalled = FALSE
  /\ level = NoLevel
  /\ emitted = 0
  /\ overlaps = 0
  /\ hasListeners = FALSE
  /\ tilesetTexture = FALSE
  /\ containers = <<>>
  /\ result = NoResult
  /\ playerRect = NullRect
  /\ levelArg = "null"
  /\ outcome = NotCalled

\* ----------------------------------------------------------------- the loader
\* first then-callback: the response check and response.json()
ThenResponse(response_) ==
  IF ~response_.ok
  THEN [pc |-> "catch", err |-> Error("Error", "Network response was not ok")]
  ELSE IF response_.body = "undecodable"
  THEN [pc |-> "catch", err |-> Error("SyntaxError", "Unexpected token in JSON")]
  ELSE [pc |-> "then2", err |-> NoError]

\* the second then-callback without the validation step
ThenJsonUnvalidated(response_) ==
  IF response_.body # "object"
  THEN [pc |-> "catch", err |-> Error("TypeError", "Cannot read properties of undefined"),
        logs |-> <<>>, ctorCalled |-> TRUE, level |-> NoLevel]
  ELSE LET c == Construct(response_.doc)
       IN  IF c.threw
           THEN [pc |-> "catch", err |-> c.error, logs |-> c.logs,
                 ctorCalled |-> TRUE, level |-> NoLevel]
           ELSE [pc |-> "resolved", err |-> NoError, logs |-> <<>>,
                 ctorCalled |-> TRUE, level |-> c.level]

\* the second then-callback reporting a constructor failure as a validation
\* failure
ThenJsonGoalAsInvalid(response_) ==
  IF ~validate(response_) \/ Construct(response_.doc).threw
  THEN [pc |-> "catch", err |-> Error("Error", "Invalid level JSON"),
        logs |-> <<LogEntry("Level JSON validation failed", FALSE, "")>>,
        ctorCalled |-> validate(response_), level |-> NoLevel]
  ELSE [pc |-> "resolved", err |-> NoError, logs |-> <<>>,
        ctorCalled |-> TRUE, level |-> Construct(response_.doc).level]

\* second then-callback: validation, then construction
ThenJson(response_) ==
  IF ~validate(response_)
  THEN [pc |-> "catch", err |-> Error("Error", "Invalid level JSON"),
        logs |-> <<LogEntry("Level JSON validation failed", FALSE, "")>>,
        ctorCalled |-> FALSE, level |-> NoLevel]
  ELSE LET c == Construct(response_.doc)
       IN  IF c.threw
           THEN [pc |-> "catch", err |-> c.error, logs |-> c.logs,
                 ctorCalled |-> TRUE, level |-> NoLevel]
           ELSE [pc |-> "resolved", err |-> NoError, logs |-> <<>>,
                 ctorCalled |-> TRUE, level |-> c.level]

\* the catch-callback logging the error message alone
CatchHandlerNoUrl(e) ==
  [pc |-> "rejected", err |-> e,
   logs |-> <<LogEntry("Failed to load level", FALSE, e.message)>>]

\* the catch-callback: log with the URL, rethrow
CatchHandler(e) ==
  [pc |-> "rejected", err |-> e,
   logs |-> <<LogEntry("Failed to load level from", TRUE, e.message)>>]

\* Level.loadLevel(url): fetch(url) is called and settles with r
LoadLevel(r) ==
  /\ pc = "idle"
  /\ response' = r
  /\ pc' = IF r.settled = "rejected" THEN "catch" ELSE "then1"
  /\ err' = IF r.settled = "rejected" THEN Error("TypeError", "Failed to fetch") ELSE NoError
  /\ errorLog' = <<>>
  /\ ctorCalled' = FALSE
  /\ UNCHANGED <<level, emitted, overlaps, hasListeners, tilesetTexture, containers, result>>
  /\ UNCHANGED collisionVars

OnResponse ==
  /\ pc = "then1"
  /\ pc' = ThenResponse(response).pc
  /\ err' = ThenResponse(response).err
  /\ UNCHANGED <<response, errorLog, ctorCalled>>
  /\ UNCHANGED <<level, emitted, overlaps, hasListeners, tilesetTexture, containers, result>>
  /\ UNCHANGED collisionVars

OnJson ==
  /\ pc = "then2"
  /\ LET n == ThenJson(response)
     IN  /\ pc' = n.pc
         /\ err' = n.err
         /\ errorLog' = errorLog \o n.logs
         /\ ctorCalled' = n.ctorCalled
         /\ level' = n.level
  /\ UNCHANGED <<response, emitted, overlaps, hasListeners, tilesetTexture, containers, result>>
  /\ UNCHANGED collisionVars

OnCatch ==
  /\ pc = "catch"
  /\ LET n == CatchHandler(err)
     IN  /\ pc' = n.pc
         /\ err' = n.err
         /\ errorLog' = errorLog \o n.logs
  /\ UNCHANGED <<response, ctorCalled>>
  /\ UNCHANGED <<level, emitted, overlaps, hasListeners, tilesetTexture, containers, result>>
  /\ UNCHANGED collisionVars

\* ------------------------------------------------------- calls on the Level
TileCoords == -1..MaxDim

PixelCoords == { k * (TILE_SIZE \div 2) : k \in -2..MaxHalfTiles }

\* the rectangles checkGoal is called with: one tile wide and high on the
\* diagonal, null, and rectangles with a NaN, an absent or an infinite field
CheckRects ==
  { Rect(Num(x), Num(x), Num(TILE_SIZE), Num(TILE_SIZE)) : x \in PixelCoords }
  \cup { NullRect,
         Rect(NaN, Num(0), Num(TILE_SIZE), Num(TILE_SIZE)),
         Rect(Num(0), Num(0), Undefined, Num(TILE_SIZE)),
         Rect(Num(0), NegInf, Num(TILE_SIZE), PosInf) }

NoPos == [x |-> 0, y |-> 0]

IsSolid(x, y) ==
  /\ pc = "resolved"
  /\ result' = Result("isSolid", x, y, NullRect, FALSE, isSolid(level, x, y), NoPos)
  /\ UNCHANGED <<level, emitted, overlaps, hasListeners, tilesetTexture, containers>>
  /\ UNCHANGED loaderVars
  /\ UNCHANGED collisionVars

GetGoalPosition ==
  /\ pc = "resolved"
  /\ result' = Result("getGoalPosition", 0, 0, NullRect, FALSE, FALSE, getGoalPosition(level))
  /\ UNCHANGED <<level, emitted, overlaps, hasListeners, tilesetTexture, containers>>
  /\ UNCHANGED loaderVars
  /\ UNCHANGED collisionVars

\* the caller assigns to a field of the object the last getGoalPosition call
\* returned
WriteReturnedPos(field, v) ==
  /\ pc = "resolved"
  /\ result.op \in {"getGoalPosition", "posWritten"}
  /\ result' = [result EXCEPT !.op = "posWritten", !.pos[field] = v]
  /\ level' = ReturnedPosWrite(level, result'.pos)
  /\ UNCHANGED <<emitted, overlaps, hasListeners, tilesetTexture, containers>>
  /\ UNCHANGED loaderVars
  /\ UNCHANGED collisionVars

\* checkGoal(rect); reading a field of null throws a TypeError
CheckGoal(rect) ==
  /\ pc = "resolved"
  /\ (~rect.isNull /\ GoalOverlap(level, rect)) => overlaps < MaxOverlaps
  /\ IF rect.isNull
     THEN /\ result' = Result("checkGoal", 0, 0, rect, TRUE, FALSE, NoPos)
          /\ UNCHANGED <<level, emitted, overlaps>>
     ELSE LET overlap == GoalOverlap(level, rect)
              fires == GoalFires(level, overlap)
          IN  /\ level' = IF fires THEN [level EXCEPT !.goalReached = "true"] ELSE level
              /\ emitted' = IF fires THEN emitted + 1 ELSE emitted
              /\ overlaps' = IF overlap THEN overlaps + 1 ELSE overlaps
              /\ result' = Result("checkGoal", 0, 0, rect, FALSE,
                                  CheckGoalReturn(level, overlap), NoPos)
  /\ UNCHANGED <<hasListeners, tilesetTexture, containers>>
  /\ UNCHANGED loaderVars
  /\ UNCHANGED collisionVars

\* level.on('levelComplete', listener), inherited from EventEmitter
Subscribe ==
  /\ pc = "resolved"
  /\ hasListeners' = TRUE
  /\ UNCHANGED <<level, emitted, overlaps, tilesetTexture, containers, result>>
  /\ UNCHANGED loaderVars
  /\ UNCHANGED collisionVars

\* loadTileset(path) of the asset loader
LoadTileset ==
  /\ ~tilesetTexture
  /\ tilesetTexture' = TRUE
  /\ UNCHANGED <<level, emitted, overlaps, hasListeners, containers, result>>
  /\ UNCHANGED loaderVars
  /\ UNCHANGED collisionVars

\* render(container); getTilesetTexture() throws while no tileset is loaded.
\* The caller's container is outside the model.
Render ==
  /\ pc = "resolved"
  /\ Len(containers) < MaxRenders
  /\ IF ~tilesetTexture
     THEN /\ result' = Result("render", 0, 0, NullRect, TRUE, FALSE, NoPos)
          /\ UNCHANGED <<level, containers>>
     ELSE LET totalTiles == level.width * level.height
              useParticle == totalTiles <= MAX_PARTICLE_TILES
              renderContainer ==
                Container(IF useParticle THEN "ParticleContainer" ELSE "Container",
                          totalTiles)
          IN  /\ containers' = Append(containers, renderContainer)
              /\ level' = [level EXCEPT !.renderContainer = Len(containers) + 1]
              /\ result' = Result("render", 0, 0, NullRect, FALSE, FALSE, NoPos)
  /\ UNCHANGED <<emitted, overlaps, hasListeners, tilesetTexture>>
  /\ UNCHANGED loaderVars
  /\ UNCHANGED collisionVars

\* destroy() clearing the goal flag with the rest
DestroyResetting ==
  /\ pc = "resolved"
  /\ containers' = IF level.renderContainer # 0
                   THEN [containers EXCEPT ![level.renderContainer].destroyed = TRUE]
                   ELSE containers
  /\ level' = [level EXCEPT !.renderContainer = 0, !.goalReached = "undefined"]
  /\ hasListeners' = FALSE
  /\ result' = Result("destroy", 0, 0, NullRect, FALSE, FALSE, NoPos)
  /\ UNCHANGED <<emitted, overlaps, tilesetTexture>>
  /\ UNCHANGED loaderVars
  /\ UNCHANGED collisionVars

Destroy ==
  /\ pc = "resolved"
  /\ IF level.renderContainer # 0
     THEN /\ containers' = [containers EXCEPT ![level.renderContainer].destroyed = TRUE]
          /\ level' = [level EXCEPT !.renderContainer = 0]
     ELSE UNCHANGED <<level, containers>>
  /\ hasListeners' = FALSE
  /\ result' = Result("destroy", 0, 0, NullRect, FALSE, FALSE, NoPos)
  /\ UNCHANGED <<emitted, overlaps, tilesetTexture>>
  /\ UNCHANGED loaderVars
  /\ UNCHANGED collisionVars

\* the loader and the queries on the Level it resolves with
Next ==
  \/ \E r \in Responses : LoadLevel(r)
  \/ OnResponse
  \/ OnJson
  \/ OnCatch
  \/ \E x \in TileCoords, y \in TileCoords : IsSolid(x, y)
  \/ GetGoalPosition
  \/ \E rect \in CheckRects : CheckGoal(rect)
  \/ \E field \in {"x", "y"}, v \in GoalCoords : WriteReturnedPos(field, v)

Spec == Init /\ [][Next]_vars

\* ---------------------------------------------------- the life of one Level
\* the documents of the Levels whose life is followed: every width and
\* height, the layouts with non-zero tile IDs, collision array [0, 2], the
\* goal in the last cell
LifecycleDocs ==
  { Doc(w, h, TilesOf(w, h, s), {0, 2}, w - 1, h - 1, TRUE) :
      w \in Dims, h \in Dims, s \in Seeds \ {0} }

\* a loadLevel call has resolved with the Level
InitLifecycle ==
  /\ pc = "resolved"
  /\ \E d \in LifecycleDocs :
       /\ response = Response("resolved", TRUE, "object", d)
       /\ level = Construct(d).level
  /\ err = NoError
  /\ errorLog = <<>>
  /\ ctorCalled = TRUE
  /\ emitted = 0
  /\ overlaps = 0
  /\ hasListeners = FALSE
  /\ tilesetTexture = FALSE
  /\ containers = <<>>
  /\ result = NoResult
  /\ playerRect = NullRect
  /\ levelArg = "null"
  /\ outcome = NotCalled

NextLifecycle ==
  \/ \E x \in TileCoords, y \in TileCoords : IsSolid(x, y)
  \/ GetGoalPosition
  \/ \E rect \in CheckRects : CheckGoal(rect)
  \/ Subscribe
  \/ LoadTileset
  \/ Render
  \/ Destroy

SpecLifecycle == InitLifecycle /\ [][NextLifecycle]_vars

\* ------------------------------------------------- calls of detectCollision
\* what a rectangle field can hold besides a finite number
NonFinite == {NaN, PosInf, NegInf, Undefined, Str}

\* the finite widths and heights: negative, zero, half a tile, one tile
Sizes == {-TILE_SIZE, 0, TILE_SIZE \div 2, TILE_SIZE}

PlayerRects ==
  { Rect(x, y, w, h) :
      x \in {Num(n) : n \in PixelCoords} \cup NonFinite,
      y \in {Num(n) : n \in PixelCoords} \cup NonFinite,
      w \in {Num(n) : n \in Sizes} \cup NonFinite,
      h \in {Num(n) : n \in Sizes} \cup NonFinite }
  \cup {NullRect}

\* the documents of the Levels detectCollision is called on
\* a grid whose one tile of ID 1 is the tile at (gx, gy)
GoalOnlyTiles(w, h, gx, gy) ==
  [y \in 0..(h - 1) |-> [x \in 0..(w - 1) |-> IF x = gx /\ y = gy THEN 1 ELSE 0]]

CollisionDocs ==
  { Doc(MaxDim, MaxDim, TilesOf(MaxDim, MaxDim, s), {1}, 0, 0, TRUE) : s \in Seeds }
  \cup
  { Doc(MaxDim, MaxDim, GoalOnlyTiles(MaxDim, MaxDim, MaxDim - 1, MaxDim - 1),
        {1}, MaxDim - 1, MaxDim - 1, TRUE) }

\* a Level has been loaded; the game loop is about to call
\* detectCollision(playerRect, level)
InitCollision ==
  /\ pc = "resolved"
  /\ \E d \in CollisionDocs :
       /\ response = Response("resolved", TRUE, "object", d)
       /\ level = Construct(d).level
  /\ err = NoError
  /\ errorLog = <<>>
  /\ ctorCalled = TRUE
  /\ emitted = 0
  /\ overlaps = 0
  /\ hasListeners = FALSE
  /\ tilesetTexture = FALSE
  /\ containers = <<>>
  /\ result = NoResult
  /\ playerRect \in PlayerRects
  /\ levelArg \in LevelArgs
  /\ outcome = NotCalled

DetectCollision ==
  /\ outcome = NotCalled
  /\ LET call == detectCollision(playerRect, levelArg, level)
     IN  /\ outcome' = call.outcome
         /\ playerRect' = call.playerRect
         /\ level' = call.level
  /\ UNCHANGED <<levelArg, emitted, overlaps, hasListeners, tilesetTexture, containers, result>>
  /\ UNCHANGED loaderVars

NextCollision == DetectCollision

SpecCollision == InitCollision /\ [][NextCollision]_vars

\* --------------------------------------------- writes to the source document
\* the caller of new Level(rawData) keeps rawData and writes to it afterwards

\* rawData.tiles[y][x] = id
WriteDocTile(x, y, id) ==
  /\ pc = "resolved"
  /\ level.constructed
  /\ y \in DOMAIN response.doc.tiles
  /\ x \in DOMAIN response.doc.tiles[y]
  /\ response' = [response EXCEPT !.doc.tiles[y][x] = id]
  /\ level' = LevelSeesDocument(level, response'.doc)
  /\ UNCHANGED <<pc, err, errorLog, ctorCalled>>
  /\ UNCHANGED <<emitted, overlaps, hasListeners, tilesetTexture, containers, result>>
  /\ UNCHANGED collisionVars

\* rawData.goal.x = v or rawData.goal.y = v
WriteDocGoal(field, v) ==
  /\ pc = "resolved"
  /\ level.constructed
  /\ response' = [response EXCEPT !.doc.goal[field] = v]
  /\ level' = LevelSeesDocument(level, response'.doc)
  /\ UNCHANGED <<pc, err, errorLog, ctorCalled>>
  /\ UNCHANGED <<emitted, overlaps, hasListeners, tilesetTexture, containers, result>>
  /\ UNCHANGED collisionVars

\* rawData.collision is emptied and refilled with the IDs of c
WriteDocCollision(c) ==
  /\ pc = "resolved"
  /\ level.constructed
  /\ response' = [response EXCEPT !.doc.collision = c]
  /\ level' = LevelSeesDocument(level, response'.doc)
  /\ UNCHANGED <<pc, err, errorLog, ctorCalled>>
  /\ UNCHANGED <<emitted, overlaps, hasListeners, tilesetTexture, containers, result>>
  /\ UNCHANGED collisionVars

NextDocument ==
  \/ \E x \in 0..(MaxDim - 1), id \in TileIds : WriteDocTile(x, x, id)
  \/ \E field \in {"x", "y"}, v \in GoalCoords : WriteDocGoal(field, v)
  \/ \E c \in CollisionSets : WriteDocCollision(c)
  \/ \E x \in TileCoords, y \in TileCoords : IsSolid(x, y)
  \/ GetGoalPosition

SpecDocument == InitLifecycle /\ [][NextDocument]_vars

\* ------------------------------------------------------------------ properties
\* C1: isSolid returns false, and does not throw, for every coordinate pair
\* outside [0,width) x [0,height), and collisionGrid[y][x] for every pair
\* inside.
C1_IsSolidBounds ==
  result.op = "isSolid" =>
    /\ ~result.threw
    /\ IF \/ result.x < 0
          \/ result.y < 0
          \/ result.x >= level.width
          \/ result.y >= level.height
       THEN result.ret = FALSE
       ELSE result.ret = level.collisionGrid[result.y][result.x]

\* isSolid was asked about the tile right of a solid tile of the last column
C1_Witness ==
  /\ result.op = "isSolid"
  /\ result.x = level.width
  /\ result.y = 0
  /\ level.collisionGrid[0][level.width - 1]
  /\ ~result.ret

\* C2: the collision grid of a Level has exactly height rows of exactly width
\* entries, and entry [y][x] says whether tiles[y][x] is in the collision ID
\* set, in every state reached through isSolid, getGoalPosition, checkGoal,
\* render and destroy.
C2_GridMatchesTiles ==
  level.constructed =>
    /\ DOMAIN level.collisionGrid = 0..(level.height - 1)
    /\ \A y \in 0..(level.height - 1) :
         /\ DOMAIN level.collisionGrid[y] = 0..(level.width - 1)
         /\ \A x \in 0..(level.width - 1) :
              level.collisionGrid[y][x] = (level.tiles[y][x] \in level.collisionTileIds)

\* a rendered Level with a solid tile of ID 2, a free tile of ID 1 and the
\* goal reached has been destroyed
C2_Witness ==
  /\ level.constructed
  /\ result.op = "destroy"
  /\ Len(containers) > 0
  /\ level.goalReached = "true"
  /\ \E y \in 0..(level.height - 1) : \E x \in 0..(level.width - 1) :
       level.tiles[y][x] = 2 /\ level.collisionGrid[y][x]
  /\ \E y \in 0..(level.height - 1) : \E x \in 0..(level.width - 1) :
       level.tiles[y][x] = 1 /\ ~level.collisionGrid[y][x]

\* the four fields of playerRect are finite numbers
FiniteRect(r) ==
  /\ ~r.isNull
  /\ r.x.t = "num"
  /\ r.y.t = "num"
  /\ r.width.t = "num"
  /\ r.height.t = "num"

\* a solid tile in the inclusive range of tile indices of a finite rectangle
SolidInRange(r, arg, lvl) ==
  \E tx \in (r.x.v \div TILE_SIZE)..((r.x.v + r.width.v) \div TILE_SIZE) :
    \E ty \in (r.y.v \div TILE_SIZE)..((r.y.v + r.height.v) \div TILE_SIZE) :
      CallIsSolid(arg, lvl, tx, ty)

\* C3: for a playerRect of four finite numbers, detectCollision returns true
\* if and only if isSolid(tx, ty) holds for a tile with
\* floor(x/T) <= tx <= floor((x+width)/T) and
\* floor(y/T) <= ty <= floor((y+height)/T), both ends inclusive.
C3_CollisionIffSolidInRange ==
  (outcome.kind # "none" /\ FiniteRect(playerRect) /\ levelArg \in {"mock", "Level"}) =>
    /\ outcome.kind = "return"
    /\ outcome.value = SolidInRange(playerRect, levelArg, level)

\* a rectangle flush with the left and upper edge of the solid tile (2,2) of
\* the mock collided
C3_Witness ==
  /\ levelArg = "mock"
  /\ playerRect = Rect(Num(TILE_SIZE), Num(TILE_SIZE), Num(TILE_SIZE), Num(TILE_SIZE))
  /\ outcome.kind = "return"
  /\ outcome.value

\* C4: 'levelComplete' has been emitted exactly once when a checkGoal call on
\* the Level has seen overlap, and not at all otherwise; later overlapping
\* calls do not emit again.
C4_EmittedOnce == emitted = (IF overlaps > 0 THEN 1 ELSE 0)

\* two checkGoal calls have seen overlap
C4_Witness == overlaps = 2 /\ emitted = 1 /\ result.op = "checkGoal" /\ result.ret

\* the goal of the document lies outside [0,width) x [0,height)
GoalOutside(d) ==
  d.goal.x < 0 \/ d.goal.y < 0 \/ ~(d.goal.x < d.width) \/ ~(d.goal.y < d.height)

\* C5: constructing a Level from a document whose goal lies outside the grid
\* fails with an error and yields no Level; with the goal inside, construction
\* succeeds.
C5_GoalBoundsAtConstruction ==
  ctorCalled =>
    IF GoalOutside(response.doc)
    THEN /\ pc \in {"catch", "rejected"}
         /\ err.message = "Goal position out of bounds"
         /\ level = NoLevel
    ELSE /\ pc = "resolved"
         /\ level.constructed
         /\ level.goal = response.doc.goal

\* the constructor threw on a goal one column right of the grid
C5_Witness ==
  /\ ctorCalled
  /\ pc = "catch"
  /\ response.doc.goal.x = response.doc.width
  /\ response.doc.goal.y = 0
  /\ level = NoLevel

\* the fetch resolved ok, the body passed validation and the goal is inside
LoadSucceeds(r) ==
  /\ r.settled = "resolved"
  /\ r.ok
  /\ validate(r)
  /\ ~GoalOutside(r.doc)

\* C6: loadLevel resolves with a Level only when the response is ok, the
\* document passes validation and the goal is in bounds; a failure at any
\* stage rejects; the constructor never runs on a document that failed
\* validation.
C6_LoadLevelStages ==
  /\ pc = "resolved" => (LoadSucceeds(response) /\ level.constructed)
  /\ pc \in {"catch", "rejected"} => (~LoadSucceeds(response) /\ level = NoLevel)
  /\ pc \in {"then1", "then2"} => level = NoLevel
  /\ (pc # "idle" /\ ~LoadSucceeds(response)) => pc # "resolved"
  /\ ctorCalled => validate(response)

\* a document without `tiles` was rejected and the constructor did not run
C6_Witness ==
  /\ pc = "rejected"
  /\ response.ok
  /\ response.body = "object"
  /\ ~response.doc.hasTiles
  /\ ~ctorCalled

\* C7: detectCollision leaves the fields of playerRect and the state of level
\* as they were, whether it returns true, returns false or throws.
C7_DetectCollisionPure ==
  [][DetectCollision => (playerRect' = playerRect /\ level' = level)]_vars

\* detectCollision returned true on a Level
C7_Witness ==
  /\ levelArg = "Level"
  /\ outcome.kind = "return"
  /\ outcome.value
  /\ playerRect.x = Num(0)

\* C8: detectCollision throws an invalid-argument error, and returns no
\* silent false, whenever playerRect is missing or one of x, y, width, height
\* is absent, non-numeric or not finite.
C8_NonFiniteRectThrows ==
  (outcome.kind # "none" /\ ~FiniteRect(playerRect)) => outcome.kind = "throw"

\* C9: detectCollision throws when level is null or has no callable isSolid,
\* and accepts an object with a callable isSolid that is not a Level.
C9_LevelDuckTyped ==
  outcome.kind # "none" =>
    /\ levelArg \in {"null", "noIsSolid"} => outcome.kind = "throw"
    /\ (levelArg \in {"null", "noIsSolid"} /\ FiniteRect(playerRect)) =>
         outcome.message = "Invalid level object supplied to detectCollision"
    /\ (levelArg = "mock" /\ FiniteRect(playerRect)) => outcome.kind = "return"

\* the mock of the tests was accepted and a point in its tile (2,2) collided
C9_Witness ==
  /\ levelArg = "mock"
  /\ playerRect = Rect(Num(2 * TILE_SIZE), Num(2 * TILE_SIZE), Num(0), Num(0))
  /\ outcome.kind = "return"
  /\ outcome.value

\* C10: a structurally valid document with the goal outside the grid makes
\* loading fail with the goal-bounds error, which differs from the error of a
\* structurally invalid document and from that of a non-ok response.
C10_GoalBoundsErrorDistinct ==
  pc = "rejected" =>
    /\ (response.settled = "resolved" /\ response.ok /\ validate(response)
          /\ GoalOutside(response.doc))
         => err = Error("Error", "Goal position out of bounds")
    /\ (response.settled = "resolved" /\ response.ok /\ response.body # "undecodable"
          /\ ~validate(response))
         => err = Error("Error", "Invalid level JSON")
    /\ (response.settled = "resolved" /\ ~response.ok)
         => err = Error("Error", "Network response was not ok")

\* goal (MaxDim, 0) on a grid MaxDim wide was rejected with the goal-bounds
\* error
C10_Witness ==
  /\ pc = "rejected"
  /\ validate(response)
  /\ response.doc.width = MaxDim
  /\ response.doc.goal = [x |-> MaxDim, y |-> 0]
  /\ err.message = "Goal position out of bounds"
  /\ Len(errorLog) = 2

\* C11: what checkGoal returns depends on playerRect and the goal coordinate
\* alone, not on earlier calls: a call returns the overlap of its rectangle
\* with the goal tile whether or not the goal was reached before.
C11_CheckGoalHistoryFree ==
  (result.op = "checkGoal" /\ ~result.threw) =>
    result.ret = GoalOverlap([goal |-> level.goal], result.rect)

\* a call after the goal was reached returned true again
C11_Witness ==
  /\ result.op = "checkGoal"
  /\ result.rect = Rect(Num(0), Num(0), Num(TILE_SIZE), Num(TILE_SIZE))
  /\ result.ret
  /\ level.goalReached = "true"
  /\ overlaps >= 2
  /\ emitted = 1

\* C12: a failing loadLevel call has called logger.error, with the URL in the
\* text, by the time its promise rejects; a call that resolves has logged no
\* error.
C12_FailuresLogged ==
  /\ pc = "rejected" => \E i \in 1..Len(errorLog) : errorLog[i].hasUrl
  /\ pc = "resolved" => errorLog = <<>>

\* a rejected fetch was logged once, with the URL
C12_Witness ==
  /\ pc = "rejected"
  /\ response.settled = "rejected"
  /\ Len(errorLog) = 1
  /\ errorLog[1].hasUrl
  /\ errorLog[1].cause = "Failed to fetch"

\* C13: writes to the source document after construction leave the Level as
\* it was: tiles agrees with collisionGrid, the goal lies inside the grid, and
\* getGoalPosition still returns a goal inside the grid.
C13_DocumentWritesHarmless ==
  level.constructed =>
    /\ \A y \in 0..(level.height - 1) : \A x \in 0..(level.width - 1) :
         level.collisionGrid[y][x] = (level.tiles[y][x] \in level.collisionTileIds)
    /\ level.goal.x \in 0..(level.width - 1)
    /\ level.goal.y \in 0..(level.height - 1)
    /\ result.op = "getGoalPosition" =>
         /\ result.pos.x \in 0..(level.width - 1)
         /\ result.pos.y \in 0..(level.height - 1)

\* C14: getGoalPosition returns a new {x, y} object equal to the stored goal;
\* writing to a returned object changes neither the Level's goal nor what a
\* later getGoalPosition or checkGoal call returns.
C14_ReturnedPosIsCopy ==
  level.constructed =>
    /\ level.goal = response.doc.goal
    /\ result.op = "getGoalPosition" => result.pos = response.doc.goal
    /\ (result.op = "checkGoal" /\ ~result.threw) =>
         result.ret = GoalOverlap([goal |-> response.doc.goal], result.rect)

\* a returned object has been written to and now differs from the goal in
\* both fields
C14_Witness ==
  /\ level.constructed
  /\ result.op = "posWritten"
  /\ result.pos.x # level.goal.x
  /\ result.pos.y # level.goal.y
  /\ level.goal = response.doc.goal

\* C15: the goal flag reads false on a new Level, becomes true only in a
\* checkGoal call that sees the overlap, and is never reset afterwards, by
\* checkGoal without overlap, isSolid, getGoalPosition, render or destroy.
C15_GoalReachedMonotone ==
  level.constructed => (goalReached(level) <=> overlaps > 0)

\* the goal was reached, the Level rendered and destroyed, and a later
\* checkGoal call saw no overlap
C15_Witness ==
  /\ goalReached(level)
  /\ Len(containers) > 0
  /\ containers[1].destroyed
  /\ level.renderContainer = 0
  /\ result.op = "checkGoal"
  /\ ~result.threw
  /\ ~result.ret

\* the goal tile is the one solid tile of the Level
GoalOnlySolid(lvl) ==
  \A y \in 0..(lvl.height - 1) : \A x \in 0..(lvl.width - 1) :
    lvl.collisionGrid[y][x] <=> (x = lvl.goal.x /\ y = lvl.goal.y)

\* the rectangle and the goal tile share an area: strict on all four edges
StrictOverlap(r, goal) ==
  /\ r.x.v < goal.x * TILE_SIZE + TILE_SIZE
  /\ r.x.v + r.width.v > goal.x * TILE_SIZE
  /\ r.y.v < goal.y * TILE_SIZE + TILE_SIZE
  /\ r.y.v + r.height.v > goal.y * TILE_SIZE

\* C16 as stated: for a playerRect of four finite numbers, checkGoal returns
\* true exactly when detectCollision reports a collision against a Level whose
\* one solid tile is the goal tile, rectangles flush with the tile included.
C16_CheckGoalIffCollision ==
  (outcome.kind # "none" /\ levelArg = "Level" /\ GoalOnlySolid(level)
     /\ FiniteRect(playerRect)) =>
    /\ outcome.kind = "return"
    /\ outcome.value = CheckGoalReturn(level, GoalOverlap(level, playerRect))

\* C16, amended: for a playerRect of four finite numbers, checkGoal returns
\* true exactly when the rectangle and the goal tile's rectangle overlap with
\* strict inequalities on all four edges; then detectCollision against a Level
\* whose one solid tile is the goal tile reports a collision as well. The
\* converse fails for rectangles flush with the tile.
C16_CheckGoalImpliesCollision ==
  (outcome.kind # "none" /\ levelArg = "Level" /\ GoalOnlySolid(level)
     /\ FiniteRect(playerRect)) =>
    LET reached == CheckGoalReturn(level, GoalOverlap(level, playerRect))
    IN  /\ reached = StrictOverlap(playerRect, level.goal)
        /\ reached => (outcome.kind = "return" /\ outcome.value)

\* a rectangle whose right and bottom edges lie on the goal tile's left and
\* top edges collides with the goal tile and does not reach the goal
C16_Witness ==
  /\ levelArg = "Level"
  /\ GoalOnlySolid(level)
  /\ level.goal = [x |-> MaxDim - 1, y |-> MaxDim - 1]
  /\ playerRect = Rect(Num((MaxDim - 2) * TILE_SIZE), Num((MaxDim - 2) * TILE_SIZE),
                       Num(TILE_SIZE), Num(TILE_SIZE))
  /\ outcome.kind = "return"
  /\ outcome.value
  /\ ~GoalOverlap(level, playerRect)

\* C17: every detectCollision call ends: one whose arguments pass the checks
\* returns after finitely many isSolid queries, one whose arguments fail them
\* throws.
C17_DetectCollisionTerminates ==
  outcome.kind # "none" =>
    IF InvalidPlayerRect(playerRect) \/ InvalidLevelArg(levelArg)
    THEN outcome.kind = "throw"
    ELSE outcome.kind = "return"

\* C18: right after destroy(), which does not throw, every container the
\* render() calls created has been destroyed and _renderContainer is null.
C18_DestroyReleasesAll ==
  result.op = "destroy" =>
    /\ ~result.threw
    /\ level.renderContainer = 0
    /\ \A i \in 1..Len(containers) : containers[i].destroyed

====
